---- MODULE Spec2Model ----
(***************************************************************************)
(* Model of the Ralph loop orchestrator (src/src/taskRunner.ts) and of the *)
(* task ledger helpers it reads (src/src/fileUtils.ts).                    *)
(*                                                                         *)
(* The orchestrator is single-threaded and callback driven.  Every `await` *)
(* of a handler is a suspension point: the code between two awaits runs    *)
(* atomically and is one action of this model.  A suspended handler is an  *)
(* activation, identified by the await it is parked on; `acts` counts the  *)
(* activations parked on each await.                                       *)
(*                                                                         *)
(* timerManager.ts and fileWatchers.ts are not part of the available       *)
(* sources; CountdownTimer, InactivityMonitor and the watchers are         *)
(* modelled from sections 4.3 - 4.5 of the specification.                  *)
(***************************************************************************)
EXTENDS Integers, Sequences, FiniteSets, TLC

\* ---------------------------------------------------------------- bounds
\* number of task lines of the ledger document
NumTasks == 2
\* number of handler activations that may be suspended at the same time
MaxActs == 2
\* cap of the iteration counter
MaxIterCount == 2
\* cap of the length of the completion history
MaxHist == 2
\* cap of the number of progress-log entries
MaxLog == 2

\* largest number of lines of a ledger text
MaxLines == 2

\* largest maxIterations setting and largest counter value of the
\* specification of the TaskRunner counter
MaxLimit == 9
MaxCount == 10

\* ------------------------------------------------------------- constants
IDLE == "idle"
RUNNING == "running"

PENDING == "PENDING"
IN_PROGRESS == "IN_PROGRESS"
COMPLETE == "COMPLETE"
BLOCKED == "BLOCKED"
TaskStatus == {PENDING, IN_PROGRESS, COMPLETE, BLOCKED}

\* readPRDAsync() returned null (the ledger is missing, unreadable or empty):
\* parseTasksAsync returns [] as for a document without task lines
NoFile == << >>
\* the empty task description '' (TaskRunner.currentTaskDescription initially)
NoTask == 0
\* task descriptions: the task on line i has description i
Descriptions == 1..NumTasks

\* the awaits a handler can be suspended on
PCs == {"sl_stats", "sl_ensure", "sl_ui", "sl_setup",
        "rn_stats", "rn_next", "rn_dispatch",
        "hp_next", "hp_append",
        "cd_wait", "cd_ui",
        "hi_prompt",
        "ss_next", "ss_dispatch"}

VARIABLES
    state,            \* LoopOrchestrator.state
    isPaused,         \* LoopOrchestrator.isPaused
    iterationCount,   \* TaskRunner.iterationCount
    currentTask,      \* TaskRunner.currentTaskDescription
    taskHistory,      \* TaskRunner.taskHistory
    maxIterations,    \* TaskRunner.settings.maxIterations
    prd,              \* the ledger document: the statuses of its task lines
    progressLog,      \* number of entries appended to the progress log
    progressFile,     \* the progress log on disk: see ProgressFiles
    prompt,           \* promptBuilder: [input, output] of the function applied
    prdWatcher,       \* ledger watcher: [started, enabled]
    prdEvent,         \* a ledger change waits to be delivered to the watcher
    activityWatcher,  \* activity watcher started
    monitor,          \* InactivityMonitor: [armed, waiting, paused]
    countdown,        \* CountdownTimer is running
    acts,             \* suspended handler activations, per await
    uiStatus,         \* status last passed to ui.updateStatus
    sessionDispatches \* history: triggerCopilotAgent calls made by runNextTask
                      \* since the state last went from Idle to Running

orchVars == <<state, isPaused>>
\* the TaskRunner fields, and the count of the dispatches requested of it
runnerVars == <<iterationCount, currentTask, taskHistory, maxIterations, sessionDispatches>>
\* the files, and what promptBuilder made of their contents
fileVars == <<prd, progressLog, progressFile, prompt>>
watchVars == <<prdWatcher, prdEvent, activityWatcher>>
timerVars == <<monitor, countdown>>
vars == <<state, isPaused, iterationCount, currentTask, taskHistory, maxIterations,
          prd, progressLog, progressFile, prompt, prdWatcher, prdEvent, activityWatcher,
          monitor, countdown, acts, uiStatus, sessionDispatches>>

\* ------------------------------------------------------- the task ledger
\* parseTasksAsync: the statuses of the task lines, in line order
parseTasks(doc) == IF doc = NoFile THEN << >> ELSE [i \in DOMAIN doc |-> doc[i]]

IsOpen(s) == s \in {PENDING, IN_PROGRESS}

\* mutant: getNextTaskAsync returns the first task line whatever its marker
getNextTaskAnyStatus(doc) == IF doc = NoFile THEN NoTask ELSE 1

\* mutant: getNextTaskAsync returns the last Pending/InProgress task
getNextTaskLastOpen(doc) ==
    LET tasks == parseTasks(doc)
        open == {i \in DOMAIN tasks : IsOpen(tasks[i])}
    IN IF open = {} THEN NoTask ELSE CHOOSE i \in open : \A j \in open : i >= j

\* getNextTaskAsync: description of the first Pending/InProgress task, or none
getNextTask(doc) ==
    LET tasks == parseTasks(doc)
        open == {i \in DOMAIN tasks : IsOpen(tasks[i])}
    IN IF open = {} THEN NoTask ELSE CHOOSE i \in open : \A j \in open : i <= j

\* mutant: getTaskStatsAsync counts only the Pending tasks as pending
getTaskStatsPendingOnly(doc) ==
    LET tasks == parseTasks(doc)
    IN [total |-> Len(tasks),
        completed |-> Cardinality({i \in DOMAIN tasks : tasks[i] = COMPLETE}),
        pending |-> Cardinality({i \in DOMAIN tasks : tasks[i] = PENDING})]

\* getTaskStatsAsync
getTaskStats(doc) ==
    LET tasks == parseTasks(doc)
    IN [total |-> Len(tasks),
        completed |-> Cardinality({i \in DOMAIN tasks : tasks[i] = COMPLETE}),
        pending |-> Cardinality({i \in DOMAIN tasks : IsOpen(tasks[i])})]

\* the orchestrator specifications do not look into the prompt of a dispatch
NoPrompt == [input |-> << >>, output |-> << >>]

\* ------------------------------------------------------ the progress log
\* the progress log on disk: the directory of the configured path is missing;
\* the directory is there but not the file; the file holds the header that
\* ensureProgressFileAsync wrote; the file is there with other content
ProgressFiles == {"nodir", "absent", "header", "present"}

\* ensureProgressFileAsync: access succeeds for a file that is there;
\* otherwise writeFile creates the file with the header, and fails (caught,
\* false returned) when the directory of the path does not exist
ensureProgressFile(file) == IF file = "absent" THEN "header" ELSE file

\* appendProgressAsync: appendFile creates a missing file, and fails (caught,
\* false returned) when the directory of the path does not exist
appendProgressFile(file) == IF file = "absent" THEN "present" ELSE file
appendProgress(file, log) == IF file = "nodir" THEN log ELSE log + 1

\* ------------------------------------------------------------ TaskRunner
\* mutant: the counter must pass the maximum, not reach it
checkIterationLimitStrict(max, count) == max > 0 /\ count > max

\* TaskRunner.checkIterationLimit
checkIterationLimit(max, count) == max > 0 /\ count >= max

\* mutant: recordTaskCompletion keeps only the newest record
recordTaskCompletionReplaces(hist, current, count) ==
    <<[taskDescription |-> current, iteration |-> count]>>

\* TaskRunner.recordTaskCompletion: the record pushed to taskHistory
recordTaskCompletion(hist, current, count) ==
    Append(hist, [taskDescription |-> current, iteration |-> count])

\* what the external collaborator does with a dispatch: it opens one of the
\* three channels, or it throws
DispatchOutcomes == {"agent", "chat", "clipboard", "throws"}

\* mutant: triggerCopilotAgent without its try/catch (lines 106, 122-127)
triggerCopilotAgentUncaught(o) ==
    [threw |-> o = "throws", result |-> IF o = "throws" THEN "null" ELSE o]

\* TaskRunner.triggerCopilotAgent: the channel, or null when the collaborator
\* threw; the exception is caught and not thrown onward
triggerCopilotAgent(o) ==
    [threw |-> FALSE, result |-> IF o = "throws" THEN "null" ELSE o]

\* ------------------------------------------------- activations (the awaits)
Total(a) ==
    LET RECURSIVE Sum(_)
        Sum(S) == IF S = {} THEN 0
                  ELSE LET p == CHOOSE q \in S : TRUE IN a[p] + Sum(S \ {p})
    IN Sum(PCs)

NoActs == [p \in PCs |-> 0]
Suspend(a, p) == [a EXCEPT ![p] = @ + 1]
Finish(a, p) == [a EXCEPT ![p] = @ - 1]
Move(a, p, q) == Suspend(Finish(a, p), q)
CanSpawn == Total(acts) < MaxActs


\* --------------------------------------------------- InactivityMonitor
\* start(onTimeout): arms the timer
MonStart(m) == [m EXCEPT !.armed = TRUE, !.paused = FALSE]
\* stop(): fully disarms
MonStop(m) == [armed |-> FALSE, waiting |-> FALSE, paused |-> FALSE]
\* pause(): stops the underlying timer, keeps "waiting"
MonPause(m) == [m EXCEPT !.armed = FALSE, !.paused = m.armed \/ m.paused]
\* resume(): restarts the timer that pause() stopped
MonResume(m) == IF m.paused THEN [m EXCEPT !.armed = TRUE, !.paused = FALSE] ELSE m
\* setWaiting(b): informational, does not change timing
MonSetWaiting(m, b) == [m EXCEPT !.waiting = b]
\* the timeout fired: inert until re-armed
MonFired(m) == [m EXCEPT !.armed = FALSE]

\* ------------------------------------------------------ ledger watcher
\* start(content, callback): subscribes and arms the watcher
PrdStart == [started |-> TRUE, enabled |-> TRUE]
PrdEnable(w) == [w EXCEPT !.enabled = TRUE]
PrdDisable(w) == [w EXCEPT !.enabled = FALSE]
\* dispose(): tears the subscription down
PrdDispose == [started |-> FALSE, enabled |-> FALSE]

\* ------------------------------------------------------ CountdownTimer
\* mutant: the continuation of startCountdown never re-enters the cycle
countdownGuardNever(st, paused) == FALSE

\* mutant: the paused test of line 499 is inverted
countdownGuardInverted(st, paused) == st = RUNNING /\ paused

\* the guard of startCountdown after the countdown resolved (line 499)
countdownGuard(st, paused) == st = RUNNING /\ ~paused

\* stop() resolves the promise of the run it cancels; the continuation of
\* startCountdown (line 499) runs in the same turn, under the state st/paused
\* that the caller of stop() leaves behind.
ResolveCountdown(a, st, paused) ==
    IF countdownGuard(st, paused)
    THEN [a EXCEPT !["cd_wait"] = 0, !["cd_ui"] = @ + a["cd_wait"]]
    ELSE [a EXCEPT !["cd_wait"] = 0]

\* ---------------------------------------------------------------- Init
\* the operator's maxIterations setting when the loop is first used: a positive
\* limit, so that the code's own limit keeps the counter within MaxIterCount
MaxIterChoices == {MaxIterCount}
\* the ledger documents the program is started on: a missing or empty one, or
\* NumTasks task lines; the orchestrator treats Pending like InProgress and
\* Complete like Blocked, so the first line alone ranges over all four markers
InitialLedgers ==
    {NoFile} \cup {d \in [1..NumTasks -> TaskStatus] :
                     \A i \in 2..NumTasks : d[i] \in {PENDING, COMPLETE}}

Init ==
    /\ state = IDLE
    /\ isPaused = FALSE
    /\ iterationCount = 0
    /\ currentTask = NoTask
    /\ taskHistory = << >>
    /\ maxIterations \in MaxIterChoices
    /\ prd \in InitialLedgers
    /\ progressLog = 0
    /\ progressFile = "present"
    /\ prompt = NoPrompt
    /\ prdWatcher = PrdDispose
    /\ prdEvent = FALSE
    /\ activityWatcher = FALSE
    /\ monitor = [armed |-> FALSE, waiting |-> FALSE, paused |-> FALSE]
    /\ countdown = FALSE
    /\ acts = NoActs
    /\ uiStatus = "idle"
    /\ sessionDispatches = 0

\* ------------------------------------------------- LoopOrchestrator parts
\* the guard at the top of runNextTask (line 383)
runNextTaskGuard == state = RUNNING /\ ~isPaused

\* a handler parked on `from` calls runNextTask: it suspends on the first
\* await of runNextTask, or returns at once when the guard fails
EnterRunNextTask(a, from) ==
    IF runNextTaskGuard THEN Move(a, from, "rn_stats") ELSE Finish(a, from)

\* mutant: stopLoop forgets to clear the paused flag (line 284)
stopLoopBodyKeepsPaused ==
    /\ prdWatcher' = PrdDispose
    /\ prdEvent' = FALSE
    /\ activityWatcher' = FALSE
    /\ countdown' = FALSE
    /\ monitor' = MonStop(monitor)
    /\ state' = IDLE
    /\ isPaused' = isPaused
    /\ uiStatus' = "idle"

\* the synchronous body of stopLoop, called by the activation parked on
\* `from` (lines 279-289); its trailing await has no continuation
stopLoopBody ==
    /\ prdWatcher' = PrdDispose
    /\ prdEvent' = FALSE
    /\ activityWatcher' = FALSE
    /\ countdown' = FALSE
    /\ monitor' = MonStop(monitor)
    /\ state' = IDLE
    /\ isPaused' = FALSE
    /\ uiStatus' = "idle"

\* startCountdown called by the activation parked on `from`: the timer is
\* (re)started, a run still outstanding is cancelled and resolved first
startCountdown(from) ==
    /\ countdown' = TRUE
    /\ acts' = Suspend(ResolveCountdown(Finish(acts, from), state, isPaused), "cd_wait")

\* ------------------------------------------------------------ startLoop
StartLoopRejected ==
    /\ state = RUNNING
    /\ UNCHANGED <<orchVars, runnerVars, fileVars, watchVars, timerVars, acts, uiStatus>>

\* mutant: startLoop without the guard of line 220
StartLoopCallUnguarded ==
    /\ CanSpawn
    /\ acts' = Suspend(acts, "sl_stats")
    /\ UNCHANGED <<orchVars, runnerVars, fileVars, watchVars, timerVars, uiStatus>>

StartLoopCall ==
    /\ state # RUNNING
    /\ CanSpawn
    /\ acts' = Suspend(acts, "sl_stats")
    /\ UNCHANGED <<orchVars, runnerVars, fileVars, watchVars, timerVars, uiStatus>>

\* mutant: startLoop without the test of line 226
StartLoopStatsUnchecked ==
    /\ acts["sl_stats"] > 0
    /\ acts' = Move(acts, "sl_stats", "sl_ensure")
    /\ UNCHANGED <<orchVars, runnerVars, fileVars, watchVars, timerVars, uiStatus>>

\* line 225 resolved
StartLoopStats ==
    /\ acts["sl_stats"] > 0
    /\ IF getTaskStats(prd).pending = 0
       THEN /\ acts' = Finish(acts, "sl_stats")
       ELSE /\ acts' = Move(acts, "sl_stats", "sl_ensure")
    /\ UNCHANGED <<orchVars, runnerVars, fileVars, watchVars, timerVars, uiStatus>>

\* mutant: startLoop without clearHistory and resetIterations (lines 236, 242)
StartLoopBeginKeepsSession ==
    /\ acts["sl_ensure"] > 0
    /\ state' = RUNNING
    /\ isPaused' = FALSE
    /\ acts' = Move(acts, "sl_ensure", "sl_ui")
    /\ UNCHANGED <<runnerVars, fileVars, watchVars, timerVars, uiStatus>>

\* line 234 resolved (ensureProgressFileAsync has done its work; its result
\* is not looked at): lines 236-245
StartLoopBegin ==
    /\ acts["sl_ensure"] > 0
    /\ taskHistory' = << >>
    /\ state' = RUNNING
    /\ isPaused' = FALSE
    /\ iterationCount' = 0
    /\ sessionDispatches' = IF state = IDLE THEN 0 ELSE sessionDispatches
    /\ progressFile' = ensureProgressFile(progressFile)
    /\ acts' = Move(acts, "sl_ensure", "sl_ui")
    /\ UNCHANGED <<currentTask, maxIterations, prd, progressLog, prompt,
                   watchVars, timerVars, uiStatus>>

\* lines 245-248 resolved: line 249, then setupWatchers up to line 356
StartLoopStatus ==
    /\ acts["sl_ui"] > 0
    /\ uiStatus' = "running"
    /\ acts' = Move(acts, "sl_ui", "sl_setup")
    /\ UNCHANGED <<orchVars, runnerVars, fileVars, watchVars, timerVars>>

\* line 356 resolved: lines 358-368, then runNextTask up to line 387
StartLoopSetup ==
    /\ acts["sl_setup"] > 0
    /\ prdWatcher' = PrdStart
    /\ prdEvent' = FALSE
    /\ activityWatcher' = TRUE
    /\ monitor' = MonStart(monitor)
    /\ acts' = EnterRunNextTask(acts, "sl_setup")
    /\ UNCHANGED <<orchVars, runnerVars, fileVars, countdown, uiStatus>>


\* ------------------------------------------- pauseLoop / resumeLoop / stopLoop
\* mutant: pauseLoop without the guard of line 256
PauseLoopUnguarded ==
    /\ isPaused' = TRUE
    /\ prdWatcher' = PrdDisable(prdWatcher)
    /\ monitor' = MonPause(monitor)
    /\ countdown' = FALSE
    /\ acts' = ResolveCountdown(acts, state, TRUE)
    /\ uiStatus' = "paused"
    /\ UNCHANGED <<state, runnerVars, fileVars, prdEvent, activityWatcher>>

\* mutant: pauseLoop leaves the ledger watcher enabled (no line 259)
PauseLoopKeepsWatcher ==
    /\ state = RUNNING
    /\ isPaused' = TRUE
    /\ monitor' = MonPause(monitor)
    /\ countdown' = FALSE
    /\ acts' = ResolveCountdown(acts, state, TRUE)
    /\ uiStatus' = "paused"
    /\ UNCHANGED <<state, runnerVars, fileVars, watchVars>>

\* lines 255-265
PauseLoop ==
    /\ state = RUNNING
    /\ isPaused' = TRUE
    /\ prdWatcher' = PrdDisable(prdWatcher)
    /\ monitor' = MonPause(monitor)
    /\ countdown' = FALSE
    /\ acts' = ResolveCountdown(acts, state, TRUE)
    /\ uiStatus' = "paused"
    /\ UNCHANGED <<state, runnerVars, fileVars, prdEvent, activityWatcher>>

\* line 256: not running
PauseLoopIgnored ==
    /\ state # RUNNING
    /\ UNCHANGED <<orchVars, runnerVars, fileVars, watchVars, timerVars, acts, uiStatus>>

\* mutant: resumeLoop without the guard of line 268
ResumeLoopUnguarded ==
    /\ CanSpawn
    /\ isPaused' = FALSE
    /\ monitor' = MonResume(monitor)
    /\ uiStatus' = "running"
    /\ acts' = IF state = RUNNING THEN Suspend(acts, "rn_stats") ELSE acts
    /\ UNCHANGED <<state, runnerVars, fileVars, watchVars, countdown>>

\* lines 267-276; runNextTask is called without being awaited
ResumeLoop ==
    /\ isPaused
    /\ CanSpawn
    /\ isPaused' = FALSE
    /\ monitor' = MonResume(monitor)
    /\ uiStatus' = "running"
    /\ acts' = IF state = RUNNING THEN Suspend(acts, "rn_stats") ELSE acts
    /\ UNCHANGED <<state, runnerVars, fileVars, watchVars, countdown>>

\* line 268: not paused
ResumeLoopIgnored ==
    /\ ~isPaused
    /\ UNCHANGED <<orchVars, runnerVars, fileVars, watchVars, timerVars, acts, uiStatus>>

\* lines 278-291, called by the operator (or by dispose)
StopLoop ==
    /\ stopLoopBody
    /\ acts' = ResolveCountdown(acts, IDLE, FALSE)
    /\ UNCHANGED <<runnerVars, fileVars>>

\* ---------------------------------------------------------- runNextTask
\* line 387 resolved: lines 389-397
RunNextTaskStats ==
    /\ acts["rn_stats"] > 0
    /\ IF getTaskStats(prd).pending = 0
       THEN /\ stopLoopBody
            /\ acts' = ResolveCountdown(Finish(acts, "rn_stats"), IDLE, FALSE)
       ELSE /\ acts' = Move(acts, "rn_stats", "rn_next")
            /\ UNCHANGED <<orchVars, watchVars, timerVars, uiStatus>>
    /\ UNCHANGED <<runnerVars, fileVars>>

\* mutant: runNextTask dispatches without incrementIteration (line 409)
RunNextTaskDispatchNoIncrement ==
    /\ acts["rn_next"] > 0
    /\ LET task == getNextTask(prd) IN
       IF task = NoTask \/ checkIterationLimit(maxIterations, iterationCount)
       THEN /\ stopLoopBody
            /\ acts' = ResolveCountdown(Finish(acts, "rn_next"), IDLE, FALSE)
            /\ UNCHANGED <<runnerVars>>
       ELSE /\ sessionDispatches < MaxActs * MaxIterCount
            /\ currentTask' = task
            /\ uiStatus' = "running"
            /\ sessionDispatches' = sessionDispatches + 1
            /\ acts' = Move(acts, "rn_next", "rn_dispatch")
            /\ UNCHANGED <<orchVars, iterationCount, taskHistory, maxIterations,
                           watchVars, timerVars>>
    /\ UNCHANGED <<fileVars>>

\* line 397 resolved: lines 398-416, the dispatch starts
RunNextTaskDispatch ==
    /\ acts["rn_next"] > 0
    /\ LET task == getNextTask(prd) IN
       IF task = NoTask \/ checkIterationLimit(maxIterations, iterationCount)
       THEN /\ stopLoopBody
            /\ acts' = ResolveCountdown(Finish(acts, "rn_next"), IDLE, FALSE)
            /\ UNCHANGED <<runnerVars>>
       ELSE /\ iterationCount < MaxIterCount
            /\ iterationCount' = iterationCount + 1
            /\ currentTask' = task
            /\ uiStatus' = "running"
            /\ sessionDispatches' = sessionDispatches + 1
            /\ acts' = Move(acts, "rn_next", "rn_dispatch")
            /\ UNCHANGED <<orchVars, taskHistory, maxIterations, watchVars, timerVars>>
    /\ UNCHANGED <<fileVars>>

\* line 416 resolved: if triggerCopilotAgent threw, the promise of runNextTask
\* is rejected and nothing more runs; otherwise (a channel or null) 418-422
RunNextTaskWait ==
    /\ acts["rn_dispatch"] > 0
    /\ \E o \in DispatchOutcomes :
         IF triggerCopilotAgent(o).threw
         THEN /\ acts' = Finish(acts, "rn_dispatch")
              /\ UNCHANGED <<prdWatcher, monitor, uiStatus>>
         ELSE /\ prdWatcher' = PrdEnable(prdWatcher)
              /\ monitor' = MonSetWaiting(monitor, TRUE)
              /\ uiStatus' = "waiting"
              /\ acts' = Finish(acts, "rn_dispatch")
    /\ UNCHANGED <<orchVars, runnerVars, fileVars, prdEvent, activityWatcher, countdown>>

\* -------------------------------------------------------- runSingleStep
SingleStepRejected ==
    /\ state = RUNNING
    /\ UNCHANGED <<orchVars, runnerVars, fileVars, watchVars, timerVars, acts, uiStatus>>

\* mutant: runSingleStep without the guard of line 294
SingleStepCallUnguarded ==
    /\ CanSpawn
    /\ acts' = Suspend(acts, "ss_next")
    /\ UNCHANGED <<orchVars, runnerVars, fileVars, watchVars, timerVars, uiStatus>>

SingleStepCall ==
    /\ state # RUNNING
    /\ CanSpawn
    /\ acts' = Suspend(acts, "ss_next")
    /\ UNCHANGED <<orchVars, runnerVars, fileVars, watchVars, timerVars, uiStatus>>

\* line 299 resolved: lines 300-312
SingleStepDispatch ==
    /\ acts["ss_next"] > 0
    /\ LET task == getNextTask(prd) IN
       IF task = NoTask \/ checkIterationLimit(maxIterations, iterationCount)
       THEN /\ acts' = Finish(acts, "ss_next")
            /\ UNCHANGED <<runnerVars>>
       ELSE /\ iterationCount < MaxIterCount
            /\ iterationCount' = iterationCount + 1
            /\ currentTask' = task
            /\ acts' = Move(acts, "ss_next", "ss_dispatch")
            /\ UNCHANGED <<taskHistory, maxIterations, sessionDispatches>>
    /\ UNCHANGED <<orchVars, fileVars, watchVars, timerVars, uiStatus>>

\* line 312 resolved
SingleStepDone ==
    /\ acts["ss_dispatch"] > 0
    /\ acts' = Finish(acts, "ss_dispatch")
    /\ UNCHANGED <<orchVars, runnerVars, fileVars, watchVars, timerVars, uiStatus>>


\* ------------------------------------------------------ the environment
\* the external agent marks one open task line of the ledger `- [x]`;
\* a subscribed watcher is notified
AgentEdit ==
    /\ \E i \in DOMAIN prd :
          /\ IsOpen(prd[i])
          /\ prd' = [prd EXCEPT ![i] = COMPLETE]
    /\ prdEvent' = prdWatcher.started
    /\ UNCHANGED <<orchVars, runnerVars, progressLog, progressFile, prompt, prdWatcher,
                   activityWatcher, timerVars, acts, uiStatus>>

\* the ledger watcher fires: a no-op while disabled, otherwise the callback
\* of setupWatchers (line 359) runs handlePrdChange up to line 432
PrdWatcherFire ==
    /\ prdEvent
    /\ prdWatcher.started
    /\ prdEvent' = FALSE
    /\ IF prdWatcher.enabled
       THEN /\ CanSpawn
            /\ acts' = Suspend(acts, "hp_next")
       ELSE /\ acts' = acts
    /\ UNCHANGED <<orchVars, runnerVars, fileVars, prdWatcher, activityWatcher,
                   timerVars, uiStatus>>

\* the inactivity window elapsed: onTimeout runs handleInactivity up to line 460
MonitorTimeout ==
    /\ monitor.armed
    /\ CanSpawn
    /\ monitor' = MonFired(monitor)
    /\ acts' = Suspend(acts, "hi_prompt")
    /\ UNCHANGED <<orchVars, runnerVars, fileVars, watchVars, countdown, uiStatus>>

\* the review countdown ran to 0: startCountdown continues at line 499
CountdownElapsed ==
    /\ countdown
    /\ countdown' = FALSE
    /\ acts' = ResolveCountdown(acts, state, isPaused)
    /\ UNCHANGED <<orchVars, runnerVars, fileVars, watchVars, monitor, uiStatus>>

\* ------------------------------------------------------ handlePrdChange
\* mutant: the "no next task" half of the test is lost
completionDeclaredOnlyDiffers(task, current) == task # NoTask /\ task # current

\* the test of line 435
completionDeclared(task, current) == task = NoTask \/ task # current

\* line 432 resolved: lines 433-444
HandlePrdChangeCheck ==
    /\ acts["hp_next"] > 0
    /\ IF completionDeclared(getNextTask(prd), currentTask)
       THEN /\ Len(taskHistory) < MaxHist
            /\ progressLog < MaxLog
            /\ prdWatcher' = PrdDisable(prdWatcher)
            /\ monitor' = MonStop(monitor)
            /\ taskHistory' = recordTaskCompletion(taskHistory, currentTask, iterationCount)
            /\ progressLog' = appendProgress(progressFile, progressLog)
            /\ progressFile' = appendProgressFile(progressFile)
            /\ acts' = Move(acts, "hp_next", "hp_append")
       ELSE /\ acts' = Finish(acts, "hp_next")
            /\ UNCHANGED <<prdWatcher, monitor, taskHistory, progressLog, progressFile>>
    /\ UNCHANGED <<orchVars, iterationCount, currentTask, maxIterations, prd, prompt,
                   prdEvent, activityWatcher, countdown, uiStatus, sessionDispatches>>

\* lines 444-447 resolved: startCountdown up to line 495
HandlePrdChangeCountdown ==
    /\ acts["hp_append"] > 0
    /\ startCountdown("hp_append")
    /\ UNCHANGED <<orchVars, runnerVars, fileVars, watchVars, monitor, uiStatus>>

\* line 500 resolved: runNextTask up to line 387
CountdownRunNext ==
    /\ acts["cd_ui"] > 0
    /\ acts' = EnterRunNextTask(acts, "cd_ui")
    /\ UNCHANGED <<orchVars, runnerVars, fileVars, watchVars, timerVars, uiStatus>>

\* ----------------------------------------------------- handleInactivity
\* mutant: a dismissed prompt is forgotten (no line 488)
HandleInactivityDismissedForgets ==
    /\ acts["hi_prompt"] > 0
    /\ acts' = Finish(acts, "hi_prompt")
    /\ UNCHANGED <<orchVars, runnerVars, fileVars, watchVars, timerVars, uiStatus>>

\* line 460 resolved with undefined, the prompt was dismissed: the default
\* branch (lines 487-488)
HandleInactivityDismissed ==
    /\ acts["hi_prompt"] > 0
    /\ monitor' = MonStart(monitor)
    /\ acts' = Finish(acts, "hi_prompt")
    /\ UNCHANGED <<orchVars, runnerVars, fileVars, watchVars, countdown, uiStatus>>

\* line 460 resolved with the operator's choice: lines 468-489
\* "Continue Waiting" (lines 469-472)
HandleInactivityContinue ==
    /\ acts["hi_prompt"] > 0
    /\ monitor' = MonStart(monitor)
    /\ acts' = Finish(acts, "hi_prompt")
    /\ UNCHANGED <<orchVars, runnerVars, fileVars, watchVars, countdown, uiStatus>>

HandleInactivityRetry ==
    /\ acts["hi_prompt"] > 0
    /\ prdWatcher' = PrdDisable(prdWatcher)
    /\ acts' = EnterRunNextTask(acts, "hi_prompt")
    /\ UNCHANGED <<orchVars, runnerVars, fileVars, prdEvent, activityWatcher,
                   timerVars, uiStatus>>

\* mutant: "Skip Task" records a completion for the skipped task
HandleInactivitySkipRecords ==
    /\ acts["hi_prompt"] > 0
    /\ Len(taskHistory) < MaxHist
    /\ prdWatcher' = PrdDisable(prdWatcher)
    /\ taskHistory' = recordTaskCompletion(taskHistory, currentTask, iterationCount)
    /\ currentTask' = NoTask
    /\ startCountdown("hi_prompt")
    /\ UNCHANGED <<orchVars, iterationCount, maxIterations, fileVars,
                   prdEvent, activityWatcher, monitor, uiStatus, sessionDispatches>>

HandleInactivitySkip ==
    /\ acts["hi_prompt"] > 0
    /\ prdWatcher' = PrdDisable(prdWatcher)
    /\ currentTask' = NoTask
    /\ startCountdown("hi_prompt")
    /\ UNCHANGED <<orchVars, iterationCount, taskHistory, maxIterations, fileVars,
                   prdEvent, activityWatcher, monitor, uiStatus, sessionDispatches>>

HandleInactivityStop ==
    /\ acts["hi_prompt"] > 0
    /\ stopLoopBody
    /\ acts' = ResolveCountdown(Finish(acts, "hi_prompt"), IDLE, FALSE)
    /\ UNCHANGED <<runnerVars, fileVars>>

\* ------------------------------------------------------------------ Next
Next ==
    \/ StartLoopRejected
    \/ StartLoopCall
    \/ StartLoopStats
    \/ StartLoopBegin
    \/ StartLoopStatus
    \/ StartLoopSetup
    \/ PauseLoop
    \/ PauseLoopIgnored
    \/ ResumeLoop
    \/ ResumeLoopIgnored
    \/ StopLoop
    \/ RunNextTaskStats
    \/ RunNextTaskDispatch
    \/ RunNextTaskWait
    \/ SingleStepRejected
    \/ SingleStepCall
    \/ SingleStepDispatch
    \/ SingleStepDone
    \/ AgentEdit
    \/ PrdWatcherFire
    \/ MonitorTimeout
    \/ CountdownElapsed
    \/ HandlePrdChangeCheck
    \/ HandlePrdChangeCountdown
    \/ CountdownRunNext
    \/ HandleInactivityContinue
    \/ HandleInactivityDismissed
    \/ HandleInactivityRetry
    \/ HandleInactivitySkip
    \/ HandleInactivityStop

Spec == Init /\ [][Next]_vars

TypeOK ==
    /\ state \in {IDLE, RUNNING}
    /\ isPaused \in BOOLEAN
    /\ iterationCount \in 0..MaxIterCount
    /\ currentTask \in {NoTask} \cup Descriptions
    /\ Len(taskHistory) <= MaxHist
    /\ progressLog \in 0..MaxLog
    /\ progressFile \in ProgressFiles
    /\ prompt = NoPrompt
    /\ acts \in [PCs -> 0..MaxActs]
    /\ Total(acts) <= MaxActs
    /\ uiStatus \in {"idle", "running", "paused", "waiting"}
    /\ sessionDispatches \in 0..(MaxActs * MaxIterCount)


\* ------------------------------------------------- the normal-run scenario
\* One session without operator commands after startLoop and without an
\* inactivity timeout: the ledger starts with at least two open tasks, the
\* agent marks the task in flight complete, the watcher delivers the change.
NormalRunLedgers ==
    {d \in [1..NumTasks -> TaskStatus] : Cardinality({i \in 1..NumTasks : IsOpen(d[i])}) >= 2}
NormalRunLimits == {0, 1, MaxIterCount}

InitNormalRun ==
    /\ state = IDLE
    /\ isPaused = FALSE
    /\ iterationCount = 0
    /\ currentTask = NoTask
    /\ taskHistory = << >>
    /\ maxIterations \in NormalRunLimits
    /\ prd \in NormalRunLedgers
    /\ progressLog = 0
    /\ progressFile = "present"
    /\ prompt = NoPrompt
    /\ prdWatcher = PrdDispose
    /\ prdEvent = FALSE
    /\ activityWatcher = FALSE
    /\ monitor = [armed |-> FALSE, waiting |-> FALSE, paused |-> FALSE]
    /\ countdown = FALSE
    /\ acts = NoActs
    /\ uiStatus = "idle"
    /\ sessionDispatches = 0

\* the operator starts the loop once
NormalRunStart ==
    /\ iterationCount = 0
    /\ acts = NoActs
    /\ StartLoopCall

\* the agent marks the dispatched task complete
AgentCompletesCurrent ==
    /\ currentTask \in DOMAIN prd
    /\ IsOpen(prd[currentTask])
    /\ AgentEdit
    /\ prd'[currentTask] = COMPLETE

\* the continuations the event loop runs, the watcher delivery and the timer
LoopSteps ==
    \/ StartLoopStats
    \/ StartLoopBegin
    \/ StartLoopStatus
    \/ StartLoopSetup
    \/ RunNextTaskStats
    \/ RunNextTaskDispatch
    \/ RunNextTaskWait
    \/ PrdWatcherFire
    \/ HandlePrdChangeCheck
    \/ HandlePrdChangeCountdown
    \/ CountdownElapsed
    \/ CountdownRunNext

NextNormalRun ==
    \/ NormalRunStart
    \/ AgentCompletesCurrent
    \/ LoopSteps

\* every resolved await is continued, every watcher event is delivered and
\* the countdown runs out
SpecNormalRun ==
    /\ InitNormalRun
    /\ [][NextNormalRun]_vars
    /\ WF_vars(StartLoopStats) /\ WF_vars(StartLoopBegin)
    /\ WF_vars(StartLoopStatus) /\ WF_vars(StartLoopSetup)
    /\ WF_vars(RunNextTaskStats) /\ WF_vars(RunNextTaskDispatch)
    /\ WF_vars(RunNextTaskWait) /\ WF_vars(PrdWatcherFire)
    /\ WF_vars(HandlePrdChangeCheck) /\ WF_vars(HandlePrdChangeCountdown)
    /\ WF_vars(CountdownElapsed) /\ WF_vars(CountdownRunNext)

\* ================================================================ claims
\* activations inside runNextTask, between its guard and the end of its dispatch
InRunNextTask == acts["rn_stats"] + acts["rn_next"] + acts["rn_dispatch"]

\* C1: at most one task is in flight: when a runNextTask activation starts its
\* dispatch (calls triggerCopilotAgent), no other runNextTask activation is
\* between its guard and the end of its own dispatch.
C1_SingleDispatchInFlight ==
    [][acts'["rn_dispatch"] > acts["rn_dispatch"] => InRunNextTask = 1]_vars

\* a handlePrdChange activation continues after its getNextTaskAsync (line 432)
HandlePrdChangeResumes == acts'["hp_next"] < acts["hp_next"]
\* a handlePrdChange activation continues after line 447 and starts the countdown
HandlePrdChangeStartsCountdown == acts'["hp_append"] < acts["hp_append"]

\* C2: when handlePrdChange has re-read the ledger, a completion is recorded
\* (one record appended to the history, one progress-log entry) if and only if
\* the ledger has no next task or the next task's description differs from the
\* current task; otherwise nothing is recorded, no countdown is prepared and
\* the watcher and the monitor are left as they are.
C2_CompletionIffNextDiffers ==
    [][HandlePrdChangeResumes =>
         IF getNextTask(prd) = NoTask \/ getNextTask(prd) # currentTask
         THEN /\ Len(taskHistory') = Len(taskHistory) + 1
              /\ taskHistory'[Len(taskHistory')].taskDescription = currentTask
              /\ progressLog' = progressLog + 1
              /\ acts'["hp_append"] = acts["hp_append"] + 1
         ELSE /\ UNCHANGED <<taskHistory, progressLog, prdWatcher, monitor, countdown>>
              /\ acts'["hp_append"] = acts["hp_append"]]_vars

\* C2 witness: a handler has declared a completion and is about to start the
\* review countdown
C2_Witness ==
    /\ acts["hp_append"] > 0
    /\ Len(taskHistory) > 0
    /\ taskHistory[Len(taskHistory)].taskDescription = currentTask

\* the first dispatched task has been marked complete in the ledger and
\* another task is still pending
FirstTaskMarkedComplete ==
    /\ iterationCount = 1
    /\ currentTask \in DOMAIN prd
    /\ prd[currentTask] = COMPLETE
    /\ getNextTask(prd) # NoTask

\* the next pending task is being dispatched, with exactly one TaskCompletion
\* (for the completed first task, iteration 1) and one progress-log entry
NextTaskDispatched ==
    /\ iterationCount = 2
    /\ acts["rn_dispatch"] > 0
    /\ currentTask = getNextTask(prd)
    /\ Len(taskHistory) = 1
    /\ taskHistory[1].iteration = 1
    /\ taskHistory[1].taskDescription \in DOMAIN prd
    /\ taskHistory[1].taskDescription # currentTask
    /\ prd[taskHistory[1].taskDescription] = COMPLETE
    /\ progressLog = 1

C4_PausedLoopDoesNotAdvance ==
    [][(isPaused /\ (HandlePrdChangeResumes \/ HandlePrdChangeStartsCountdown)) =>
         /\ taskHistory' = taskHistory
         /\ progressLog' = progressLog
         /\ ~countdown']_vars

\* C5: while the loop is paused the inactivity monitor is never armed.
C5_PausedMonitorNotArmed == isPaused => ~monitor.armed

\* C6: a handlePrdChange activation that continues while the state is Idle is
\* a no-op: it records no TaskCompletion, appends no progress-log entry and
\* starts no countdown.
C6_IdleHandlerIsNoOp ==
    [][(state = IDLE /\ (HandlePrdChangeResumes \/ HandlePrdChangeStartsCountdown)) =>
         /\ taskHistory' = taskHistory
         /\ progressLog' = progressLog
         /\ ~countdown']_vars

\* C7: in the Idle state neither the review countdown nor the inactivity
\* monitor is armed.
C7_IdleTimersNotArmed == state = IDLE => (~countdown /\ ~monitor.armed)

\* stopLoop called in this state changes nothing
StopLoopChangesNothing ==
    /\ state = IDLE
    /\ ~isPaused
    /\ prdWatcher = PrdDispose
    /\ ~prdEvent
    /\ ~activityWatcher
    /\ ~countdown
    /\ monitor = MonStop(monitor)
    /\ uiStatus = "idle"
    /\ acts["cd_wait"] = 0

\* C8: stopLoop is total and idempotent: from any state it ends with state =
\* Idle and paused = false, leaves the iteration counter, the current task
\* and the history alone, and a second stopLoop right after it changes nothing.
C8_StopLoopIdempotent ==
    [][StopLoop =>
         /\ state' = IDLE
         /\ ~isPaused'
         /\ UNCHANGED <<iterationCount, currentTask, taskHistory>>
         /\ StopLoopChangesNothing']_vars

\* C8 witness: the loop was stopped from Running while a dispatch was outstanding
C8_Witness == state = IDLE /\ acts["rn_dispatch"] > 0 /\ iterationCount > 0

\* C9: while the state is Running (paused or not) no startLoop invocation gets
\* past its guard: no new startLoop activation appears, so the call changes
\* nothing and dispatches nothing.
C9_StartRejectedWhileRunning ==
    [][state = RUNNING => acts'["sl_stats"] <= acts["sl_stats"]]_vars

\* C9 witness: a running session with a dispatched task and a recorded completion
C9_Witness == state = RUNNING /\ iterationCount > 0 /\ Len(taskHistory) > 0

\* C10: a startLoop that finds no Pending/InProgress task (ledger missing,
\* empty or all tasks Complete/Blocked) returns at once: state and paused flag
\* stay as they are, no watcher or timer is armed, history and iteration
\* counter are kept and no activation is left to dispatch anything.
C10_StartWithoutPendingIsNoOp ==
    [][(acts'["sl_stats"] < acts["sl_stats"] /\ getTaskStats(prd).pending = 0) =>
         /\ acts' = Finish(acts, "sl_stats")
         /\ UNCHANGED <<state, isPaused, iterationCount, currentTask, taskHistory,
                        prdWatcher, activityWatcher, monitor, countdown>>]_vars

\* C10 witness: startLoop was invoked from Idle on a ledger without pending
\* task, with a history and a counter left by an earlier session
C10_Witness ==
    /\ state = IDLE
    /\ acts["sl_stats"] > 0
    /\ getTaskStats(prd).pending = 0
    /\ Len(taskHistory) > 0
    /\ iterationCount > 0

\* --------------------------------------- scenario: startLoop alone from Idle
\* The loop is Idle, possibly after an earlier session that left a history,
\* a counter and a current task behind; the ledger has a pending task; the
\* operator calls startLoop once and nothing else happens until it returns.
EarlierHistories == {<< >>, <<[taskDescription |-> 1, iteration |-> 1]>>}
StartAloneLedgers == {d \in InitialLedgers : getTaskStats(d).pending > 0}

InitStartAlone ==
    /\ state = IDLE
    /\ isPaused = FALSE
    /\ iterationCount \in 0..MaxIterCount
    /\ currentTask \in {NoTask} \cup Descriptions
    /\ taskHistory \in EarlierHistories
    /\ maxIterations \in NormalRunLimits
    /\ prd \in StartAloneLedgers
    /\ progressLog = Len(taskHistory)
    /\ progressFile = "present"
    /\ prompt = NoPrompt
    /\ prdWatcher = PrdDispose
    /\ prdEvent = FALSE
    /\ activityWatcher = FALSE
    /\ monitor = [armed |-> FALSE, waiting |-> FALSE, paused |-> FALSE]
    /\ countdown = FALSE
    /\ acts = NoActs
    /\ uiStatus = "idle"
    /\ sessionDispatches = iterationCount

StartAloneCall ==
    /\ acts = NoActs
    /\ StartLoopCall

NextStartAlone ==
    \/ StartAloneCall
    \/ StartLoopStats
    \/ StartLoopBegin
    \/ StartLoopStatus
    \/ StartLoopSetup
    \/ RunNextTaskStats
    \/ RunNextTaskDispatch
    \/ RunNextTaskWait

SpecStartAlone ==
    /\ InitStartAlone
    /\ [][NextStartAlone]_vars
    /\ WF_vars(NextStartAlone)

\* the outcome C11 describes
StartLoopOutcome ==
    /\ acts = NoActs
    /\ state = RUNNING
    /\ ~isPaused
    /\ taskHistory = << >>
    /\ iterationCount = 1
    /\ sessionDispatches = 1
    /\ currentTask = getNextTask(prd)
    /\ currentTask \in DOMAIN prd
    /\ IsOpen(prd[currentTask])

\* C11: a startLoop from Idle on a ledger with a pending task, with no other
\* command interleaved, returns, and when it returns the state is Running and
\* not paused, the history of the earlier session is gone, the iteration
\* counter is 1 and the current task is the first Pending/InProgress task,
\* dispatched exactly once.
C11_StartLoopOutcome ==
    /\ [][(acts # NoActs /\ acts' = NoActs) => StartLoopOutcome']_vars
    /\ (acts["sl_stats"] > 0) ~> StartLoopOutcome

\* C11 witness: startLoop returned after an earlier session had recorded a
\* completion
C11_Witness == StartLoopOutcome /\ progressLog = 1

\* C12: pauseLoop is a no-op unless the loop is Running and not paused: a
\* pauseLoop call made in Idle or while already paused changes nothing (no
\* flag, no watcher, no timer, no status shown to the operator).
C12_PauseLoopNoOpUnlessRunningUnpaused ==
    [][((state # RUNNING \/ isPaused) /\ (PauseLoop \/ PauseLoopIgnored))
          => UNCHANGED vars]_vars

\* C13: resumeLoop is a no-op unless the loop is paused: a resumeLoop call
\* made in Idle or in Running-unpaused changes nothing; in particular it
\* starts no runNextTask cycle and leaves the inactivity monitor alone.
C13_ResumeLoopNoOpUnlessPaused ==
    [][(~isPaused /\ (ResumeLoop \/ ResumeLoopIgnored)) => UNCHANGED vars]_vars

\* C13 witness: states in which resumeLoop is called without a pause: Running
\* with a task in flight and the monitor armed
C13_Witness ==
    /\ state = RUNNING
    /\ ~isPaused
    /\ monitor.armed
    /\ uiStatus = "waiting"
    /\ ENABLED ResumeLoopIgnored

\* ------------------------------ scenario: the ledger changes during a pause
\* startLoop dispatches a task; the operator pauses while the agent works; the
\* agent marks the task in flight complete during the pause (the disabled
\* watcher delivers nothing); the operator resumes.  Every runNextTask cycle
\* after the first dispatch is one that resumeLoop started.
PauseWhileWaiting ==
    /\ acts = NoActs
    /\ ~isPaused
    /\ PauseLoop

AgentCompletesWhilePaused ==
    /\ isPaused
    /\ AgentCompletesCurrent

ResumeAfterEdit ==
    /\ currentTask \in DOMAIN prd
    /\ prd[currentTask] = COMPLETE
    /\ ResumeLoop

NextPausedEdit ==
    \/ NormalRunStart
    \/ StartLoopStats
    \/ StartLoopBegin
    \/ StartLoopStatus
    \/ StartLoopSetup
    \/ RunNextTaskStats
    \/ RunNextTaskDispatch
    \/ RunNextTaskWait
    \/ PauseWhileWaiting
    \/ AgentCompletesWhilePaused
    \/ PrdWatcherFire
    \/ ResumeAfterEdit

SpecPausedEdit ==
    /\ InitNormalRun
    /\ [][NextPausedEdit]_vars
    /\ WF_vars(RunNextTaskStats) /\ WF_vars(RunNextTaskDispatch)
    /\ WF_vars(RunNextTaskWait)

\* a cycle started by resumeLoop comes to its decision: it returns from the
\* stats test (line 389) or continues after getNextTaskAsync (line 397)
ResumedCycleDecides ==
    /\ sessionDispatches >= 1
    /\ acts'["rn_stats"] + acts'["rn_next"] < acts["rn_stats"] + acts["rn_next"]

\* the cycle dispatches the first Pending/InProgress task of the ledger
DispatchesFirstOpen ==
    /\ getNextTask(prd) # NoTask
    /\ acts'["rn_dispatch"] = acts["rn_dispatch"] + 1
    /\ sessionDispatches' = sessionDispatches + 1
    /\ currentTask' = getNextTask(prd)
    /\ currentTask' \in DOMAIN prd
    /\ IsOpen(prd[currentTask'])

\* the cycle stops the loop without dispatching
StopsWithoutDispatch ==
    /\ state' = IDLE
    /\ acts'["rn_dispatch"] = acts["rn_dispatch"]
    /\ UNCHANGED <<currentTask, iterationCount, sessionDispatches>>

\* C14 as stated: the cycle started by the resumeLoop that follows a ledger
\* change made during the pause dispatches the task that is then first
\* Pending/InProgress, or stops the loop if none remains; it never dispatches
\* the task completed during the pause.
C14_ResumedCycleDispatchesOrNoneRemains ==
    [][ResumedCycleDecides =>
         \/ DispatchesFirstOpen
         \/ (getNextTask(prd) = NoTask /\ StopsWithoutDispatch)]_vars

\* C14 amended: ... or stops the loop if none remains or if the iteration
\* limit has been reached; and the cycle does come to that decision.
C14_ResumedCycleReflectsLedger ==
    /\ [][ResumedCycleDecides =>
            \/ DispatchesFirstOpen
            \/ (getNextTask(prd) = NoTask /\ StopsWithoutDispatch)
            \/ (/\ checkIterationLimit(maxIterations, iterationCount)
                /\ StopsWithoutDispatch)]_vars
    /\ (sessionDispatches >= 1 /\ acts["rn_stats"] > 0)
          ~> (acts["rn_stats"] = 0 /\ acts["rn_next"] = 0)

\* C14 witness: the task dispatched first was completed during the pause,
\* unseen by the disabled watcher, and the resumed cycle has dispatched the
\* second task
C14_Witness ==
    /\ acts["rn_dispatch"] > 0
    /\ sessionDispatches = 2
    /\ currentTask = 2
    /\ prd[1] = COMPLETE
    /\ taskHistory = << >>

\* a runSingleStep activation continues after getNextTaskAsync (line 299)
SingleStepReads == acts'["ss_next"] < acts["ss_next"]
\* a runSingleStep activation returns after its dispatch (line 312)
SingleStepReturns == acts'["ss_dispatch"] < acts["ss_dispatch"]

\* runSingleStep dispatches the first Pending/InProgress task, once
SingleStepDispatchesOne ==
    /\ acts'["ss_dispatch"] = acts["ss_dispatch"] + 1
    /\ iterationCount' = iterationCount + 1
    /\ currentTask' = getNextTask(prd)
    /\ IsOpen(prd[currentTask'])

\* runSingleStep leaves the execution state, the watchers and the timers alone
SingleStepFrame ==
    UNCHANGED <<state, isPaused, prdWatcher, activityWatcher, monitor, countdown>>

\* C15 as stated: runSingleStep is rejected while the state is Running (no
\* activation gets past the guard, so no dispatch and no counter change);
\* invoked in Idle it dispatches exactly one task, the first Pending/InProgress
\* one, whenever the ledger has one, and none of its steps changes the
\* execution state or arms a watcher or a timer.
C15_SingleStepAlwaysDispatchesOne ==
    [][/\ state = RUNNING => acts'["ss_next"] <= acts["ss_next"]
       /\ (SingleStepReads /\ getNextTask(prd) # NoTask) => SingleStepDispatchesOne
       /\ (SingleStepReads \/ SingleStepReturns) => SingleStepFrame]_vars

\* C15 amended: ... it dispatches exactly one task provided the iteration
\* limit is not reached; at the limit it returns without dispatching.
C15_SingleStepDispatchesOneBelowLimit ==
    [][/\ state = RUNNING => acts'["ss_next"] <= acts["ss_next"]
       /\ (/\ SingleStepReads
           /\ getNextTask(prd) # NoTask
           /\ ~checkIterationLimit(maxIterations, iterationCount))
             => SingleStepDispatchesOne
       /\ (/\ SingleStepReads
           /\ checkIterationLimit(maxIterations, iterationCount))
             => (acts' = Finish(acts, "ss_next") /\ UNCHANGED runnerVars)
       /\ (SingleStepReads \/ SingleStepReturns) => SingleStepFrame]_vars

\* C15 witness: a single step invoked in Idle has dispatched the first open
\* task; the state is Idle and nothing is armed
C15_Witness ==
    /\ state = IDLE
    /\ acts["ss_dispatch"] > 0
    /\ currentTask = getNextTask(prd)
    /\ iterationCount = 1
    /\ prdWatcher = PrdDispose
    /\ ~activityWatcher
    /\ ~monitor.armed
    /\ ~countdown

\* C16: in every reachable state the paused flag implies state = Running:
\* paused is never true while the state is Idle.
C16_PausedImpliesRunning == isPaused => state = RUNNING

\* C16 witness: the loop is paused with a task dispatched and a completion
\* recorded (after start, dispatch, completion and pause)
C16_Witness == isPaused /\ state = RUNNING /\ iterationCount > 0 /\ Len(taskHistory) > 0

\* a triggerCopilotAgent call starts, in runNextTask or in runSingleStep
DispatchStarts ==
    \/ acts'["rn_dispatch"] > acts["rn_dispatch"]
    \/ acts'["ss_dispatch"] > acts["ss_dispatch"]

\* C17: the iteration counter counts the dispatches since its last reset: a
\* step increments it, by exactly one, if and only if the step starts a
\* triggerCopilotAgent call; any other change is the reset to 0 made by a
\* startLoop that got past its tests (line 242); pauseLoop, resumeLoop and
\* stopLoop leave it alone.
C17_CounterCountsDispatches ==
    [][/\ DispatchStarts <=> iterationCount' = iterationCount + 1
       /\ ~DispatchStarts =>
            \/ iterationCount' = iterationCount
            \/ (iterationCount' = 0 /\ acts'["sl_ensure"] < acts["sl_ensure"])
       /\ (PauseLoop \/ ResumeLoop \/ StopLoop) => iterationCount' = iterationCount]_vars

\* C17 witness: the second dispatch of a session is under way, counter = 2
C17_Witness ==
    /\ state = RUNNING
    /\ acts["rn_dispatch"] > 0
    /\ sessionDispatches = 2
    /\ iterationCount = 2

\* ---------------------------------- the TaskRunner counter taken on its own
\* maxIterations is drawn from a range that includes zero and a negative
\* setting; the counter starts at 0 and can be counted beyond the limit; the
\* orchestrator stays Idle.
LimitSettings == -1..MaxLimit

InitIterationLimit ==
    /\ state = IDLE
    /\ isPaused = FALSE
    /\ iterationCount = 0
    /\ currentTask = NoTask
    /\ taskHistory = << >>
    /\ maxIterations \in LimitSettings
    /\ prd = NoFile
    /\ progressLog = 0
    /\ progressFile = "present"
    /\ prompt = NoPrompt
    /\ prdWatcher = PrdDispose
    /\ prdEvent = FALSE
    /\ activityWatcher = FALSE
    /\ monitor = [armed |-> FALSE, waiting |-> FALSE, paused |-> FALSE]
    /\ countdown = FALSE
    /\ acts = NoActs
    /\ uiStatus = "idle"
    /\ sessionDispatches = 0

\* TaskRunner.incrementIteration
incrementIteration ==
    /\ iterationCount < MaxCount
    /\ iterationCount' = iterationCount + 1
    /\ UNCHANGED <<orchVars, currentTask, taskHistory, maxIterations, sessionDispatches,
                   fileVars, watchVars, timerVars, acts, uiStatus>>

\* the callers' use of checkIterationLimit (lines 307-309, 404-409): the
\* counter is incremented only when the limit is not reached
checkedIncrement ==
    /\ ~checkIterationLimit(maxIterations, iterationCount)
    /\ incrementIteration

\* TaskRunner.resetIterations
resetIterations ==
    /\ iterationCount' = 0
    /\ UNCHANGED <<orchVars, currentTask, taskHistory, maxIterations, sessionDispatches,
                   fileVars, watchVars, timerVars, acts, uiStatus>>

\* TaskRunner.setSettings
setSettings ==
    /\ maxIterations' \in LimitSettings
    /\ UNCHANGED <<orchVars, iterationCount, currentTask, taskHistory, sessionDispatches,
                   fileVars, watchVars, timerVars, acts, uiStatus>>

NextIterationLimit ==
    \/ incrementIteration
    \/ checkedIncrement
    \/ resetIterations
    \/ setSettings

SpecIterationLimit == InitIterationLimit /\ [][NextIterationLimit]_vars

\* C18: checkIterationLimit is false whenever maxIterations <= 0; for a
\* positive maxIterations it is true exactly when the counter is >=
\* maxIterations, so an increment turns it from false to true exactly when the
\* counter reaches maxIterations; a step that increments only when the limit
\* is not reached never takes the counter of a positive limit past it.
C18_CheckIterationLimit ==
    /\ [](maxIterations <= 0 => ~checkIterationLimit(maxIterations, iterationCount))
    /\ [](maxIterations > 0 =>
            (checkIterationLimit(maxIterations, iterationCount)
               <=> iterationCount >= maxIterations))
    /\ [][(/\ maxIterations' = maxIterations
           /\ iterationCount' = iterationCount + 1
           /\ ~checkIterationLimit(maxIterations, iterationCount)
           /\ checkIterationLimit(maxIterations', iterationCount'))
             => iterationCount' = maxIterations]_vars
    /\ [][(checkedIncrement /\ maxIterations > 0) => iterationCount' <= maxIterations]_vars

\* C18 witness: the counter has just reached a positive maximum of 3
C18_Witness ==
    /\ maxIterations = 3
    /\ iterationCount = 3
    /\ checkIterationLimit(maxIterations, iterationCount)
    /\ ~checkIterationLimit(maxIterations, iterationCount - 1)

\* C19: with a positive maxIterations, the number of dispatches the loop
\* issues between a successful startLoop and the next return to Idle never
\* exceeds maxIterations (re-dispatches after resume, retry and skip counted);
\* and a cycle that finds the limit reached stops the loop and dispatches
\* nothing.
C19_SessionDispatchesWithinLimit ==
    /\ []((state = RUNNING /\ maxIterations > 0) => sessionDispatches <= maxIterations)
    /\ [][(/\ acts'["rn_next"] < acts["rn_next"]
           /\ checkIterationLimit(maxIterations, iterationCount))
             => (/\ state' = IDLE
                 /\ acts'["rn_dispatch"] = acts["rn_dispatch"]
                 /\ sessionDispatches' = sessionDispatches)]_vars

\* C20: no dispatch is issued while the loop is Idle or paused: whenever
\* runNextTask starts a triggerCopilotAgent call, the state is Running and the
\* paused flag is false, also when pauseLoop or stopLoop was called while
\* runNextTask was suspended reading the ledger.
C20_DispatchOnlyWhenRunningUnpaused ==
    [][acts'["rn_dispatch"] > acts["rn_dispatch"]
         => (state = RUNNING /\ ~isPaused)]_vars

\* the loop is Running, unpaused and waiting for a ledger change after a
\* dispatch: the status shown is "waiting", no handler is in progress (no
\* inactivity prompt is open either) and no review countdown runs
WaitingForLedgerChange ==
    /\ state = RUNNING
    /\ ~isPaused
    /\ uiStatus = "waiting"
    /\ acts = NoActs
    /\ ~countdown

\* C21: whenever the loop is Running, unpaused and waiting for a ledger change
\* after a dispatch (the second and later tasks of a session included), the
\* inactivity monitor is armed.
C21_MonitorArmedWhileWaiting == WaitingForLedgerChange => monitor.armed

\* a runNextTask activation continues after its dispatch (line 416)
DispatchReturns == acts'["rn_dispatch"] < acts["rn_dispatch"]

\* C22: a dispatch fault never stops or crashes the loop: triggerCopilotAgent
\* returns null without throwing when the collaborator throws, and whatever
\* the outcome of the dispatch runNextTask goes on to enable the ledger
\* watcher and mark the monitor waiting, leaves state and paused flag as they
\* are, consumes no further iteration and starts no retry.
C22_DispatchFaultIsAbsorbed ==
    /\ [](/\ ~triggerCopilotAgent("throws").threw
          /\ triggerCopilotAgent("throws").result = "null")
    /\ [][DispatchReturns =>
            /\ prdWatcher' = PrdEnable(prdWatcher)
            /\ monitor' = MonSetWaiting(monitor, TRUE)
            /\ uiStatus' = "waiting"
            /\ acts' = Finish(acts, "rn_dispatch")
            /\ UNCHANGED <<state, isPaused, iterationCount, currentTask,
                           taskHistory, sessionDispatches>>]_vars

\* C22 witness: after the first dispatch of a session returned, the loop is
\* Running and waiting with the ledger watcher enabled
C22_Witness ==
    /\ state = RUNNING
    /\ ~isPaused
    /\ acts = NoActs
    /\ uiStatus = "waiting"
    /\ prdWatcher.enabled
    /\ monitor.waiting
    /\ iterationCount = 1
    /\ sessionDispatches = 1

\* ------------------------------------- scenario: inactivity, then a choice
\* startLoop dispatches a task; the agent stalls (no ledger change) and the
\* inactivity timeout fires while the loop waits; the operator answers the
\* prompt; no other command is given.
TimeoutWhileWaiting ==
    /\ WaitingForLedgerChange
    /\ MonitorTimeout

NextSkip ==
    \/ NormalRunStart
    \/ StartLoopStats
    \/ StartLoopBegin
    \/ StartLoopStatus
    \/ StartLoopSetup
    \/ RunNextTaskStats
    \/ RunNextTaskDispatch
    \/ RunNextTaskWait
    \/ TimeoutWhileWaiting
    \/ HandleInactivitySkip
    \/ CountdownElapsed
    \/ CountdownRunNext

SpecSkip ==
    /\ InitNormalRun
    /\ [][NextSkip]_vars
    /\ WF_vars(HandleInactivitySkip)
    /\ WF_vars(CountdownElapsed) /\ WF_vars(CountdownRunNext)
    /\ WF_vars(RunNextTaskStats) /\ WF_vars(RunNextTaskDispatch)

\* what "Skip Task" does at once
SkipEffect ==
    /\ currentTask' = NoTask
    /\ prdWatcher' = PrdDisable(prdWatcher)
    /\ countdown'
    /\ acts'["cd_wait"] = 1
    /\ UNCHANGED <<taskHistory, progressLog, state, isPaused, iterationCount,
                   sessionDispatches>>

\* the cycle that follows the skip comes to its decision
CycleAfterSkipDecides ==
    /\ sessionDispatches >= 1
    /\ currentTask = NoTask
    /\ acts'["rn_stats"] + acts'["rn_next"] < acts["rn_stats"] + acts["rn_next"]

\* C23 as stated: "Skip Task" clears the current task, disables the ledger
\* watcher and starts the review countdown without recording a completion or
\* a progress-log entry; the cycle after the countdown dispatches the task that
\* is first pending.
C23_SkipThenDispatchFirstPending ==
    [][/\ HandleInactivitySkip => SkipEffect
       /\ CycleAfterSkipDecides =>
            (DispatchesFirstOpen /\ UNCHANGED <<taskHistory, progressLog>>)]_vars

\* C23 amended: ... the cycle after the countdown dispatches the task that is
\* first pending unless the iteration limit is reached, in which case it stops
\* the loop; and that cycle does take place.
C23_SkipThenDispatchBelowLimit ==
    /\ [][/\ HandleInactivitySkip => SkipEffect
          /\ CycleAfterSkipDecides =>
               /\ \/ DispatchesFirstOpen
                  \/ (/\ checkIterationLimit(maxIterations, iterationCount)
                      /\ StopsWithoutDispatch)
               /\ UNCHANGED <<taskHistory, progressLog>>]_vars
    /\ (currentTask = NoTask /\ acts["cd_wait"] > 0)
          ~> (\/ (acts["rn_dispatch"] > 0 /\ sessionDispatches = 2)
              \/ (state = IDLE /\ checkIterationLimit(maxIterations, iterationCount)))

\* C23 witness: after the skip and the countdown the first pending task (the
\* skipped one, still pending) is dispatched; nothing was recorded
C23_Witness ==
    /\ acts["rn_dispatch"] > 0
    /\ sessionDispatches = 2
    /\ currentTask = getNextTask(prd)
    /\ currentTask = 1
    /\ taskHistory = << >>
    /\ progressLog = 0
    /\ ~prdWatcher.enabled

\* ----------------------------------------- scenario: inactivity, then retry
\* As above, the operator chooses "Retry Task"; while the retry reads the
\* ledger (lines 387, 397) the agent, late, marks the task in flight complete.
\* The ledger watcher was disabled by the retry and drops the change.
AgentCompletesDuringRetry ==
    /\ sessionDispatches >= 1
    /\ acts["rn_stats"] + acts["rn_next"] > 0
    /\ AgentCompletesCurrent

DroppedLedgerChange ==
    /\ ~prdWatcher.enabled
    /\ PrdWatcherFire

NextRetry ==
    \/ NormalRunStart
    \/ StartLoopStats
    \/ StartLoopBegin
    \/ StartLoopStatus
    \/ StartLoopSetup
    \/ RunNextTaskStats
    \/ RunNextTaskDispatch
    \/ RunNextTaskWait
    \/ TimeoutWhileWaiting
    \/ HandleInactivityRetry
    \/ AgentCompletesDuringRetry
    \/ DroppedLedgerChange

SpecRetry ==
    /\ InitNormalRun
    /\ [][NextRetry]_vars
    /\ WF_vars(HandleInactivityRetry)
    /\ WF_vars(RunNextTaskStats) /\ WF_vars(RunNextTaskDispatch)

\* C24: the task dispatched by "Retry Task" is the task that was in flight
\* when the timeout fired (the one recorded as current): the dispatch of a
\* retry cycle leaves the current task as it is.
C24_RetryDispatchesSameTask ==
    [][(sessionDispatches >= 1 /\ acts'["rn_dispatch"] > acts["rn_dispatch"])
         => currentTask' = currentTask]_vars

\* C25: dismissing the inactivity prompt has exactly the effect of "Continue
\* Waiting": the monitor is re-armed and nothing else changes (state, paused
\* flag, current task, counter, history, watcher enablement; no dispatch).
C25_DismissedIsContinueWaiting ==
    /\ [][HandleInactivityDismissed <=> HandleInactivityContinue]_vars
    /\ [][HandleInactivityDismissed =>
            /\ monitor' = MonStart(monitor)
            /\ monitor'.armed
            /\ acts' = Finish(acts, "hi_prompt")
            /\ UNCHANGED <<state, isPaused, iterationCount, currentTask, taskHistory,
                           maxIterations, sessionDispatches, prd, progressLog,
                           prdWatcher, prdEvent, activityWatcher, countdown,
                           uiStatus>>]_vars

\* C25 witness: the prompt of a timeout was answered (or dismissed) during the
\* wait for the second task, whose monitor is armed again
C25_Witness ==
    /\ state = RUNNING
    /\ acts = NoActs
    /\ uiStatus = "waiting"
    /\ iterationCount = 2
    /\ Len(taskHistory) = 1
    /\ monitor.armed

\* ---------------------------------- scenario: every task gets completed
\* The normal run in which the agent marks the task in flight complete while
\* the loop waits for it with the ledger watcher enabled, so that every
\* change is delivered; the operator gives no command after startLoop.
AgentCompletesWhileWatched ==
    /\ WaitingForLedgerChange
    /\ prdWatcher.enabled
    /\ AgentCompletesCurrent

NextTermination ==
    \/ NormalRunStart
    \/ AgentCompletesWhileWatched
    \/ LoopSteps

SpecTermination ==
    /\ InitNormalRun
    /\ [][NextTermination]_vars
    /\ WF_vars(AgentCompletesWhileWatched)
    /\ WF_vars(StartLoopStats) /\ WF_vars(StartLoopBegin)
    /\ WF_vars(StartLoopStatus) /\ WF_vars(StartLoopSetup)
    /\ WF_vars(RunNextTaskStats) /\ WF_vars(RunNextTaskDispatch)
    /\ WF_vars(RunNextTaskWait) /\ WF_vars(PrdWatcherFire)
    /\ WF_vars(HandlePrdChangeCheck) /\ WF_vars(HandlePrdChangeCountdown)
    /\ WF_vars(CountdownElapsed) /\ WF_vars(CountdownRunNext)

\* the session is over: the loop is back in Idle and no handler is left
SessionOver == state = IDLE /\ acts = NoActs /\ sessionDispatches >= 1

LF == "\n"
CR == "\r"

\* LineTerminator of the regular-expression grammar; a line cut at the line
\* feeds can still hold carriage returns
LineTerminators == {CR, LF}
\* the characters of \s among the characters used here
WhiteSpace == {" ", CR, LF}

RECURSIVE split(_)
\* content.split('\n')
split(content) ==
    IF \A k \in DOMAIN content : content[k] # LF
    THEN <<content>>
    ELSE LET k == CHOOSE i \in DOMAIN content :
                     content[i] = LF /\ \A j \in 1..(i - 1) : content[j] # LF
         IN <<SubSeq(content, 1, k - 1)>> \o split(SubSeq(content, k + 1, Len(content)))

\* String.prototype.trim
trim(str) ==
    LET ink == {k \in DOMAIN str : str[k] \notin WhiteSpace}
    IN IF ink = {} THEN << >>
       ELSE SubSeq(str, CHOOSE k \in ink : \A j \in ink : k <= j,
                        CHOOSE k \in ink : \A j \in ink : k >= j)

\* the end of the longest run of characters of set S that starts at p
\* (p - 1 when line[p] is not in S)
RunEnd(line, p, S) ==
    LET stop == {k \in p..Len(line) : line[k] \notin S}
    IN IF stop = {} THEN Len(line) ELSE (CHOOSE k \in stop : \A j \in stop : k <= j) - 1

\* ^ under the m flag: the start of the input, or just after a terminator
AtLineStart(line, p) == p = 1 \/ line[p - 1] \in LineTerminators

\* the match of \s*(.+)$ from position r: \s* gives back characters until
\* (.+) finds one that is not a terminator; (.+) then runs to the next
\* terminator or the end, where $ holds under the m flag
TextStart(line, r) ==
    LET cand == {k \in r..(RunEnd(line, r, WhiteSpace) + 1) :
                     k <= Len(line) /\ line[k] \notin LineTerminators}
    IN IF cand = {} THEN 0 ELSE CHOOSE k \in cand : \A j \in cand : k >= j

\* the match of the expression with ^ at position p: 0 groups when it fails
MatchAt(line, p) ==
    IF ~(p <= Len(line) /\ AtLineStart(line, p) /\ line[p] \in {"-", "*"})
    THEN [ok |-> FALSE]
    ELSE LET b == RunEnd(line, p + 1, WhiteSpace) + 1
         IN IF ~(/\ b + 2 <= Len(line)
                 /\ line[b] = "["
                 /\ line[b + 1] \in {" ", "x", "X", "~", "!"}
                 /\ line[b + 2] = "]")
            THEN [ok |-> FALSE]
            ELSE LET t == TextStart(line, b + 3)
                 IN IF t = 0 THEN [ok |-> FALSE]
                    ELSE [ok |-> TRUE,
                          marker |-> line[b + 1],
                          text |-> SubSeq(line, t,
                                     RunEnd(line, t, {line[k] : k \in DOMAIN line}
                                                        \ LineTerminators))]

\* RegExp.prototype.exec: the match at the leftmost position that has one
exec(line) ==
    LET hits == {p \in DOMAIN line : MatchAt(line, p).ok}
    IN IF hits = {} THEN [ok |-> FALSE]
       ELSE MatchAt(line, CHOOSE p \in hits : \A q \in hits : p <= q)

\* the switch over the lower-cased marker (lines 101-113)
StatusOfMarker(m) ==
    CASE m \in {"x", "X"} -> COMPLETE
      [] m = "~" -> IN_PROGRESS
      [] m = "!" -> BLOCKED
      [] OTHER -> PENDING

RECURSIVE tasksOfLines(_, _)
\* the loop of parseTasksFromContent from line i on
tasksOfLines(lines, i) ==
    IF i > Len(lines) THEN << >>
    ELSE LET m == exec(lines[i])
         IN (IF m.ok
             THEN <<[description |-> trim(m.text),
                     status |-> StatusOfMarker(m.marker),
                     lineNumber |-> i,
                     rawLine |-> lines[i]]>>
             ELSE << >>) \o tasksOfLines(lines, i + 1)

\* parseTasksFromContent; parseTasksAsync returns [] when there is no content
parseTasksFromContent(content) ==
    IF content = << >> THEN << >> ELSE tasksOfLines(split(content), 1)

\* what the orchestrator specifications keep of a ledger text in prd
StatusesOf(content) ==
    LET tasks == parseTasksFromContent(content)
    IN [i \in DOMAIN tasks |-> tasks[i].status]

\* ------------------------------------------- specification of the ledger
\* In this specification prd holds the text of the ledger.  The texts are
\* built of lines that vary the marker and the text after it, or the bullet
\* and what stands before and behind it.
MarkerLines ==
    {<<"-", " ", "[", m, "]">> \o d :
        m \in {" ", "x", "X", "~", "!", "?"},
        d \in {<< >>, <<" ">>, <<" ", "T">>, <<" ", "T", CR>>}}

BulletLines ==
    {pre \o <<b>> \o g \o <<"[", m, "]", " ", "T">> :
        pre \in {<< >>, <<" ">>, <<"T", CR>>},
        b \in {"-", "*", "+"},
        g \in {<< >>, <<" ">>},
        m \in {" ", "x"}}

SampleLines == MarkerLines \cup BulletLines \cup {<< >>, <<"T">>}

RECURSIVE join(_)
\* the lines joined by line feeds
join(lines) ==
    IF Len(lines) = 0 THEN << >>
    ELSE IF Len(lines) = 1 THEN lines[1]
    ELSE lines[1] \o <<LF>> \o join(Tail(lines))

LedgerTexts ==
    {join(ls) : ls \in UNION {[1..n -> SampleLines] : n \in 0..MaxLines}}

InitLedger ==
    /\ prd \in LedgerTexts
    /\ state = IDLE
    /\ isPaused = FALSE
    /\ iterationCount = 0
    /\ currentTask = NoTask
    /\ taskHistory = << >>
    /\ maxIterations = 0
    /\ progressLog = 0
    /\ progressFile = "present"
    /\ prompt = NoPrompt
    /\ prdWatcher = [started |-> FALSE, enabled |-> FALSE]
    /\ prdEvent = FALSE
    /\ activityWatcher = FALSE
    /\ monitor = [armed |-> FALSE, waiting |-> FALSE, paused |-> FALSE]
    /\ countdown = FALSE
    /\ acts = NoActs
    /\ uiStatus = "idle"
    /\ sessionDispatches = 0

\* the ledger reads of a step: the statistics decide whether there is work,
\* and the next task becomes the current task (its index in the task list)
LedgerResolveNext ==
    /\ currentTask = NoTask
    /\ getTaskStats(StatusesOf(prd)).pending > 0
    /\ currentTask' = getNextTask(StatusesOf(prd))
    /\ UNCHANGED <<orchVars, iterationCount, taskHistory, maxIterations,
                   sessionDispatches, fileVars, watchVars, timerVars, acts, uiStatus>>

NextLedger == LedgerResolveNext

SpecLedger == InitLedger /\ [][NextLedger]_vars

\* C27: parsing then nextTask returns the first task in line order whose
\* status is Pending or InProgress, and none exactly when every task is
\* Complete or Blocked (which covers a text without task line).
C27_NextTaskIsFirstOpen ==
    LET tasks == parseTasksFromContent(prd)
        n == getNextTask(StatusesOf(prd))
    IN /\ n # NoTask =>
            /\ n \in DOMAIN tasks
            /\ IsOpen(tasks[n].status)
            /\ \A j \in DOMAIN tasks :
                   IsOpen(tasks[j].status) => tasks[n].lineNumber <= tasks[j].lineNumber
       /\ n = NoTask <=> \A j \in DOMAIN tasks : tasks[j].status \in {COMPLETE, BLOCKED}
       /\ currentTask # NoTask => currentTask = n

\* C27 witness: a Complete task stands before the Pending task that was
\* resolved as the next one
C27_Witness ==
    LET tasks == parseTasksFromContent(prd)
    IN /\ Len(tasks) = 2
       /\ tasks[1].status = COMPLETE
       /\ tasks[2].status = PENDING
       /\ currentTask = 2

\* the lines of a text that the expression matches
TaskLines(content) ==
    IF content = << >> THEN {}
    ELSE {i \in DOMAIN split(content) : exec(split(content)[i]).ok}

\* C28: total is the number of task lines, completed the number of Complete
\* tasks, pending the number of Pending plus InProgress tasks; an empty or
\* missing text gives {0,0,0}; pending = 0 exactly when nextTask is none.
C28_StatsCountTheTasks ==
    LET tasks == parseTasksFromContent(prd)
        stats == getTaskStats(StatusesOf(prd))
        Count(S) == Cardinality({i \in DOMAIN tasks : tasks[i].status \in S})
    IN /\ stats.total = Cardinality(TaskLines(prd))
       /\ stats.completed = Count({COMPLETE})
       /\ stats.pending = Count({PENDING}) + Count({IN_PROGRESS})
       /\ stats.total = Count({PENDING}) + Count({IN_PROGRESS})
                          + Count({COMPLETE}) + Count({BLOCKED})
       /\ prd = << >> => stats = [total |-> 0, completed |-> 0, pending |-> 0]
       /\ getTaskStats(NoFile) = [total |-> 0, completed |-> 0, pending |-> 0]
       /\ stats.pending = 0 <=> getNextTask(StatusesOf(prd)) = NoTask

\* C28 witness: a text with an InProgress and a Blocked task, whose InProgress
\* task was counted as pending and resolved as the next one
C28_Witness ==
    LET tasks == parseTasksFromContent(prd)
    IN /\ Len(tasks) = 2
       /\ tasks[1].status = BLOCKED
       /\ tasks[2].status = IN_PROGRESS
       /\ getTaskStats(StatusesOf(prd)).pending = 1
       /\ currentTask = 2

\* the task grammar as the specification words it: the line begins with a
\* bullet, followed by a bracketed marker and at least one more character
BeginsWithTask(line) ==
    /\ Len(line) >= 1
    /\ line[1] \in {"-", "*"}
    /\ LET b == RunEnd(line, 2, WhiteSpace) + 1
       IN /\ b + 3 <= Len(line)
          /\ line[b] = "["
          /\ line[b + 1] \in {" ", "x", "X", "~", "!"}
          /\ line[b + 2] = "]"

\* the character between the brackets that follow the bullet of the line
MarkerOf(line) == line[RunEnd(line, 2, WhiteSpace) + 2]

\* C29: a line is parsed as a task only if it begins with a bullet followed
\* by a bracketed marker of { space, x, X, ~, ! } and a description; the status
\* is the one of the marker; the tasks are in the order of their lines and
\* lineNumber is the 1-based index of the task's line.
C29_OnlyTaskLinesAreParsed ==
    LET lines == split(prd)
        tasks == parseTasksFromContent(prd)
    IN \A k \in DOMAIN tasks :
          LET t == tasks[k]
          IN /\ t.lineNumber \in DOMAIN lines
             /\ t.rawLine = lines[t.lineNumber]
             /\ BeginsWithTask(t.rawLine)
             /\ t.status = (CASE MarkerOf(t.rawLine) = " " -> PENDING
                              [] MarkerOf(t.rawLine) \in {"x", "X"} -> COMPLETE
                              [] MarkerOf(t.rawLine) = "~" -> IN_PROGRESS
                              [] MarkerOf(t.rawLine) = "!" -> BLOCKED
                              [] OTHER -> "none")
             /\ \A j \in DOMAIN tasks : j < k => tasks[j].lineNumber < t.lineNumber

\* the step of startLoop that follows its checks (lines 236-242)
StartLoopSucceeds == acts'["sl_ensure"] < acts["sl_ensure"] /\ state' = RUNNING

\* the step of handlePrdChange that declares a completion (lines 435-444)
CompletionRecorded == acts'["hp_append"] > acts["hp_append"]

\* C30: the history only grows, by one record per recordTaskCompletion, until
\* a successful startLoop empties it; pauseLoop, resumeLoop, stopLoop and
\* runSingleStep leave it alone.
C30_HistoryAppendOnly ==
    [][/\ StartLoopSucceeds => taskHistory' = << >>
       /\ ~StartLoopSucceeds =>
             /\ Len(taskHistory') >= Len(taskHistory)
             /\ SubSeq(taskHistory', 1, Len(taskHistory)) = taskHistory
             /\ IF CompletionRecorded
                THEN Len(taskHistory') = Len(taskHistory) + 1
                ELSE taskHistory' = taskHistory
       /\ (\/ PauseLoop \/ PauseLoopIgnored
           \/ ResumeLoop \/ ResumeLoopIgnored
           \/ StopLoop
           \/ SingleStepRejected \/ SingleStepCall \/ SingleStepDispatch \/ SingleStepDone)
             => taskHistory' = taskHistory]_vars

\* C30 witness: two records were appended in one session, which was paused
\* in between and is paused now
C30_Witness ==
    /\ Len(taskHistory) = 2
    /\ taskHistory[1].iteration = 1
    /\ taskHistory[2].iteration = 2
    /\ state = RUNNING
    /\ isPaused

\* --------------------------------------- scenario: the progress log at start
\* startLoop alone, as in SpecStartAlone, on a disk where the progress log is
\* there, is missing, or has a configured path in a directory that is missing.
InitProgressFile ==
    /\ state = IDLE
    /\ isPaused = FALSE
    /\ iterationCount \in 0..MaxIterCount
    /\ currentTask \in {NoTask} \cup Descriptions
    /\ taskHistory \in EarlierHistories
    /\ maxIterations \in NormalRunLimits
    /\ prd \in StartAloneLedgers
    /\ progressLog = 0
    /\ progressFile \in {"nodir", "absent", "present"}
    /\ prompt = NoPrompt
    /\ prdWatcher = PrdDispose
    /\ prdEvent = FALSE
    /\ activityWatcher = FALSE
    /\ monitor = [armed |-> FALSE, waiting |-> FALSE, paused |-> FALSE]
    /\ countdown = FALSE
    /\ acts = NoActs
    /\ uiStatus = "idle"
    /\ sessionDispatches = iterationCount

SpecProgressFile == InitProgressFile /\ [][NextStartAlone]_vars

\* C31: whenever startLoop has moved the loop to Running the progress log
\* exists, and a log that was absent (its directory too, or not) has been
\* created with the header line.
C31_ProgressFileExistsWhenRunning ==
    /\ state = RUNNING => progressFile \in {"header", "present"}
    /\ [][(state = IDLE /\ state' = RUNNING /\ progressFile # "present")
             => progressFile' = "header"]_vars

\* ------------------------------------------------- applyCustomTemplate
\* A text is a sequence of tokens.  A token is a character, a placeholder
\* `{{name}}` (what one of the five expressions of lines 38-42 matches, or
\* `{{other}}`, which none matches), or one of the two-character patterns
\* `$$` and `$&` that String.prototype.replace interprets in a replacement
\* string.
MaxTemplate == 2

SupportedPlaceholders ==
    <<"{{task}}", "{{prd}}", "{{progress}}", "{{requirements}}", "{{workspace}}">>

\* the variable a supported placeholder stands for
ValueOf(variables, ph) ==
    CASE ph = "{{task}}" -> variables.task
      [] ph = "{{prd}}" -> variables.prd
      [] ph = "{{progress}}" -> variables.progress
      [] ph = "{{requirements}}" -> variables.requirements
      [] ph = "{{workspace}}" -> variables.workspace

RECURSIVE GetSubstitution(_, _)
\* what replace inserts for a match: the replacement string, in which `$$`
\* stands for `$` and `$&` for the matched text
GetSubstitution(replacement, matched) ==
    IF replacement = << >> THEN << >>
    ELSE (CASE Head(replacement) = "$$" -> <<"$">>
            [] Head(replacement) = "$&" -> <<matched>>
            [] OTHER -> <<Head(replacement)>>)
         \o GetSubstitution(Tail(replacement), matched)

RECURSIVE replaceAll(_, _, _)
\* str.replace(/\{\{name\}\}/g, replacement)
replaceAll(str, ph, replacement) ==
    IF str = << >> THEN << >>
    ELSE (IF Head(str) = ph THEN GetSubstitution(replacement, ph) ELSE <<Head(str)>>)
         \o replaceAll(Tail(str), ph, replacement)

RECURSIVE replaceChain(_, _, _)
\* the chain of replace calls from the k-th on
replaceChain(str, variables, k) ==
    IF k > Len(SupportedPlaceholders) THEN str
    ELSE replaceChain(replaceAll(str, SupportedPlaceholders[k],
                                 ValueOf(variables, SupportedPlaceholders[k])),
                      variables, k + 1)

\* applyCustomTemplate (promptBuilder.ts lines 36-43)
applyCustomTemplate(template, variables) == replaceChain(template, variables, 1)

TemplateTokens ==
    {"a", "{{task}}", "{{prd}}", "{{progress}}", "{{requirements}}",
     "{{workspace}}", "{{other}}"}

Templates == UNION {[1..n -> TemplateTokens] : n \in 0..MaxTemplate}

\* values of the variables: the task description and the ledger are written
\* by the operator and may hold anything
TemplateVariables ==
    [task : {<<"t">>, <<"{{prd}}">>, <<"{{task}}">>, <<"$&">>, <<"t", "$$">>},
     prd : {<< >>, <<"p">>, <<"{{progress}}">>, <<"{{task}}">>},
     progress : {<< >>, <<"g">>},
     requirements : {<<"r", "t">>},
     workspace : {<< >>, <<"w">>}]

InitTemplate ==
    /\ prompt \in [input : [template : Templates, variables : TemplateVariables],
                   output : {<<"unset">>}]
    /\ state = IDLE
    /\ isPaused = FALSE
    /\ iterationCount = 0
    /\ currentTask = NoTask
    /\ taskHistory = << >>
    /\ maxIterations = 0
    /\ prd = NoFile
    /\ progressLog = 0
    /\ progressFile = "present"
    /\ prdWatcher = PrdDispose
    /\ prdEvent = FALSE
    /\ activityWatcher = FALSE
    /\ monitor = [armed |-> FALSE, waiting |-> FALSE, paused |-> FALSE]
    /\ countdown = FALSE
    /\ acts = NoActs
    /\ uiStatus = "idle"
    /\ sessionDispatches = 0

\* buildAgentPromptAsync with a custom template (lines 54-61)
ApplyCustomTemplate ==
    /\ prompt.output = <<"unset">>
    /\ prompt' = [prompt EXCEPT
                    !.output = applyCustomTemplate(prompt.input.template,
                                                   prompt.input.variables)]
    /\ UNCHANGED <<orchVars, runnerVars, prd, progressLog, progressFile,
                   watchVars, timerVars, acts, uiStatus>>

SpecTemplate == InitTemplate /\ [][ApplyCustomTemplate]_vars

RECURSIVE ExpandOnce(_, _)
\* the template with every supported placeholder replaced by its value, the
\* values taken as they are
ExpandOnce(template, variables) ==
    IF template = << >> THEN << >>
    ELSE (IF \E k \in DOMAIN SupportedPlaceholders : SupportedPlaceholders[k] = Head(template)
          THEN ValueOf(variables, Head(template))
          ELSE <<Head(template)>>)
         \o ExpandOnce(Tail(template), variables)

\* C32: applyCustomTemplate returns the template with every occurrence of a
\* supported placeholder replaced by its variable's value, the values
\* appearing verbatim and not expanded again.
C32_TemplateValuesVerbatim ==
    prompt.output # <<"unset">> =>
        prompt.output = ExpandOnce(prompt.input.template, prompt.input.variables)

\* ------------------------------- scenario: several ledger changes per task
\* The normal run, in which the agent writes the ledger as often as it likes
\* while the loop waits for it: every write that marks a task complete is a
\* change the watcher delivers if it is still enabled.
AgentEditWhileWaiting ==
    /\ state = RUNNING
    /\ ~isPaused
    /\ uiStatus = "waiting"
    /\ AgentEdit

NextSeveralChanges ==
    \/ NormalRunStart
    \/ AgentEditWhileWaiting
    \/ LoopSteps

SpecSeveralChanges == InitNormalRun /\ [][NextSeveralChanges]_vars

\* C33: each dispatch yields at most one TaskCompletion.  Every dispatch
\* increments the iteration counter, and the counter is reset only together
\* with the history, so two records of one dispatch carry the same iteration.
C33_OneCompletionPerDispatch ==
    \A i, j \in DOMAIN taskHistory :
        i # j => taskHistory[i].iteration # taskHistory[j].iteration

\* ------------------------------------------ scenario: overlapping startLoop
\* startLoop is invoked whenever the loop is Idle, also while an earlier
\* invocation is still suspended before line 240; nothing else is invoked.
NextOverlappingStart ==
    \/ StartLoopCall
    \/ StartLoopStats
    \/ StartLoopBegin
    \/ StartLoopStatus
    \/ StartLoopSetup
    \/ RunNextTaskStats
    \/ RunNextTaskDispatch
    \/ RunNextTaskWait

SpecOverlappingStart == InitNormalRun /\ [][NextOverlappingStart]_vars

\* C34: startLoop invocations that overlap start exactly one session: when
\* they have finished and the loop is Running, exactly one task has been
\* dispatched and the iteration counter is 1.
C34_OverlappingStartsOneSession ==
    (acts = NoActs /\ state = RUNNING) =>
        (sessionDispatches = 1 /\ iterationCount = 1)

\* ------------------------------------------ scenario: stopLoop during start
\* startLoop alone, and stopLoop invoked while startLoop is suspended between
\* line 240 (state = Running) and the body of setupWatchers (line 358).
StopDuringStart ==
    /\ state = RUNNING
    /\ acts["sl_ui"] + acts["sl_setup"] > 0
    /\ StopLoop

NextStopDuringStart ==
    \/ StartAloneCall
    \/ StopDuringStart
    \/ StartLoopStats
    \/ StartLoopBegin
    \/ StartLoopStatus
    \/ StartLoopSetup
    \/ RunNextTaskStats
    \/ RunNextTaskDispatch
    \/ RunNextTaskWait

SpecStopDuringStart == InitNormalRun /\ [][NextStopDuringStart]_vars

\* C35: after a stopLoop that came while startLoop was suspended between
\* setting state = Running and setupWatchers, once both have finished the
\* state is Idle, no watcher and no inactivity monitor is armed, and no task
\* has been dispatched.  (In this scenario the loop is Idle with no handler
\* left only at the very beginning and after such a stopLoop.)
C35_StopDuringStartLeavesNothingArmed ==
    (acts = NoActs /\ state = IDLE) =>
        /\ ~prdWatcher.started
        /\ ~activityWatcher
        /\ ~monitor.armed
        /\ sessionDispatches = 0

\* --------------------------------- scenario: a ledger change before dispatch
\* The normal run, in which the ledger is also written (by the operator or by
\* an agent still at work) after setupWatchers has armed the watcher and
\* before runNextTask has set the current task.
EarlyLedgerEdit ==
    /\ state = RUNNING
    /\ prdWatcher.started
    /\ sessionDispatches = 0
    /\ AgentEdit

NextEarlyChange ==
    \/ NormalRunStart
    \/ EarlyLedgerEdit
    \/ AgentCompletesCurrent
    \/ LoopSteps

SpecEarlyChange == InitNormalRun /\ [][NextEarlyChange]_vars

\* C36: every TaskCompletion of the history has a non-empty taskDescription
\* and an iteration between 1 and the current iteration counter.
C36_CompletionsAreOfDispatchedTasks ==
    \A i \in DOMAIN taskHistory :
        /\ taskHistory[i].taskDescription # NoTask
        /\ taskHistory[i].iteration \in 1..iterationCount

\* ------------------------------------------- scenario: pause and resume
\* The operator pauses while the loop waits on a dispatched task and resumes
\* later.  The task on line 1 is marked complete only during a pause, the
\* later tasks only while the loop waits for them with the watcher enabled.
AgentCompletesFirstWhilePaused ==
    /\ isPaused
    /\ currentTask = 1
    /\ AgentCompletesCurrent

AgentCompletesLaterWhileWatched ==
    /\ currentTask # 1
    /\ AgentCompletesWhileWatched

NextPauseResume ==
    \/ NormalRunStart
    \/ PauseWhileWaiting
    \/ ResumeLoop
    \/ AgentCompletesFirstWhilePaused
    \/ AgentCompletesLaterWhileWatched
    \/ LoopSteps

SpecPauseResume ==
    /\ InitNormalRun
    /\ [][NextPauseResume]_vars
    /\ WF_vars(RunNextTaskStats) /\ WF_vars(RunNextTaskDispatch)
    /\ WF_vars(RunNextTaskWait)

\* the resumed cycle dispatches the task that was in flight once more
RedispatchesSameTask ==
    /\ acts'["rn_dispatch"] = acts["rn_dispatch"] + 1
    /\ currentTask' = currentTask
    /\ iterationCount' = iterationCount + 1

\* no TaskCompletion and no progress-log entry for the task of line 1
FirstTaskNeverRecorded ==
    /\ \A i \in DOMAIN taskHistory : taskHistory[i].taskDescription # 1
    /\ progressLog = Len(taskHistory)

PauseDuringDispatch ==
    /\ acts["rn_dispatch"] > 0
    /\ ~isPaused
    /\ PauseLoop

StopDuringDispatch ==
    /\ acts["rn_dispatch"] > 0
    /\ state = RUNNING
    /\ StopLoop

NextCommandDuringDispatch ==
    \/ NormalRunStart
    \/ PauseDuringDispatch
    \/ StopDuringDispatch
    \/ ResumeLoop
    \/ AgentCompletesWhileWatched
    \/ LoopSteps

SpecCommandDuringDispatch == InitNormalRun /\ [][NextCommandDuringDispatch]_vars

\* C38: once all handlers have run to completion, the status last reported
\* is 'idle' when the state is Idle, 'paused' when the loop is paused, and
\* 'running' or 'waiting' only when the state is Running and not paused.
C38_StatusAgreesWithState ==
    acts = NoActs =>
        /\ state = IDLE => uiStatus = "idle"
        /\ (state = RUNNING /\ isPaused) => uiStatus = "paused"
        /\ uiStatus \in {"running", "waiting"} => (state = RUNNING /\ ~isPaused)

\* ---------------------------------------------- sanitizeTaskDescription
\* A string is kept as its runs: a sequence of [ch, n], n >= 1 copies of the
\* character ch, neighbouring runs having different characters.
MAX_TASK_DESCRIPTION_LENGTH == 5000
\* largest number of runs of an input string
MaxRuns == 3

\* stands for the characters of the class removed at line 15
NUL == "NUL"
\* the backtick and the backslash
BACKTICK == "backtick"
BACKSLASH == "backslash"
\* the characters used: a letter, a space, the two line terminators, a
\* control character, a backtick
RunChars == {"a", " ", LF, CR, NUL, BACKTICK}
RunLengths == {1, 3, MAX_TASK_DESCRIPTION_LENGTH - 3, MAX_TASK_DESCRIPTION_LENGTH + 1}

RECURSIVE Runs(_)
\* the runs of a sequence of [ch, n]: empty runs dropped, equal neighbours merged
Runs(rs) ==
    IF rs = << >> THEN << >>
    ELSE IF Head(rs).n = 0 THEN Runs(Tail(rs))
    ELSE LET rest == Runs(Tail(rs))
         IN IF rest # << >> /\ Head(rest).ch = Head(rs).ch
            THEN <<[ch |-> Head(rs).ch, n |-> Head(rs).n + Head(rest).n]>> \o Tail(rest)
            ELSE <<Head(rs)>> \o rest

RECURSIVE Length(_)
\* String.prototype.length
Length(rs) == IF rs = << >> THEN 0 ELSE Head(rs).n + Length(Tail(rs))

\* String.prototype.trim on runs (the control character is not white space)
trimRuns(rs) ==
    LET ink == {k \in DOMAIN rs : rs[k].ch \notin WhiteSpace}
    IN IF ink = {} THEN << >>
       ELSE SubSeq(rs, CHOOSE k \in ink : \A j \in ink : k <= j,
                       CHOOSE k \in ink : \A j \in ink : k >= j)

RECURSIVE slice(_, _)
\* String.prototype.slice(0, k)
slice(rs, k) ==
    IF rs = << >> \/ k <= 0 THEN << >>
    ELSE IF Head(rs).n >= k THEN <<[ch |-> Head(rs).ch, n |-> k]>>
    ELSE <<Head(rs)>> \o slice(Tail(rs), k - Head(rs).n)

\* replace(/[\x00-\x08\x0B\x0C\x0E-\x1F\x7F]/g, '')
removeControl(rs) == Runs(SelectSeq(rs, LAMBDA r : r.ch # NUL))

\* replace(/\n{3,}/g, '\n\n')
collapseLineFeeds(rs) ==
    [k \in DOMAIN rs |-> IF rs[k].ch = LF /\ rs[k].n >= 3
                         THEN [ch |-> LF, n |-> 2] ELSE rs[k]]

RECURSIVE escapeFences(_, _)
\* replace(/^```/gm, '\\`\\`\\`') from run k on: a run of backticks that stands
\* at the start of the string or after a line terminator loses its first
\* three backticks to backslash-backtick pairs
escapeFences(rs, k) ==
    IF k > Len(rs) THEN << >>
    ELSE (IF /\ rs[k].ch = BACKTICK
             /\ rs[k].n >= 3
             /\ (k = 1 \/ rs[k - 1].ch \in LineTerminators)
          THEN <<[ch |-> BACKSLASH, n |-> 1], [ch |-> BACKTICK, n |-> 1],
                 [ch |-> BACKSLASH, n |-> 1], [ch |-> BACKTICK, n |-> 1],
                 [ch |-> BACKSLASH, n |-> 1], [ch |-> BACKTICK, n |-> rs[k].n - 2]>>
          ELSE <<rs[k]>>)
         \o escapeFences(rs, k + 1)

\* sanitizeTaskDescription (promptBuilder.ts lines 7-22); the empty string is
\* returned for an empty input at line 9
sanitizeTaskDescription(input) ==
    IF input = << >> THEN << >>
    ELSE escapeFences(
           collapseLineFeeds(
             removeControl(
               slice(trimRuns(input), MAX_TASK_DESCRIPTION_LENGTH))), 1)

InputStrings ==
    {rs \in UNION {[1..n -> [ch : RunChars, n : RunLengths]] : n \in 0..MaxRuns} :
        \A k \in 1..(Len(rs) - 1) : rs[k].ch # rs[k + 1].ch}

NotSanitized == <<[ch |-> "unset", n |-> 0]>>

InitSanitize ==
    /\ prompt \in [input : InputStrings, output : {NotSanitized}]
    /\ state = IDLE
    /\ isPaused = FALSE
    /\ iterationCount = 0
    /\ currentTask = NoTask
    /\ taskHistory = << >>
    /\ maxIterations = 0
    /\ prd = NoFile
    /\ progressLog = 0
    /\ progressFile = "present"
    /\ prdWatcher = PrdDispose
    /\ prdEvent = FALSE
    /\ activityWatcher = FALSE
    /\ monitor = [armed |-> FALSE, waiting |-> FALSE, paused |-> FALSE]
    /\ countdown = FALSE
    /\ acts = NoActs
    /\ uiStatus = "idle"
    /\ sessionDispatches = 0

\* buildAgentPromptAsync sanitizes the task description (line 46)
SanitizeTaskDescription ==
    /\ prompt.output = NotSanitized
    /\ prompt' = [prompt EXCEPT !.output = sanitizeTaskDescription(prompt.input)]
    /\ UNCHANGED <<orchVars, runnerVars, prd, progressLog, progressFile,
                   watchVars, timerVars, acts, uiStatus>>

SpecSanitize == InitSanitize /\ [][SanitizeTaskDescription]_vars

\* C39: the result of sanitizeTaskDescription has at most
\* MAX_TASK_DESCRIPTION_LENGTH characters, no control character other than
\* tab, line feed and carriage return, no run of three or more line feeds and
\* no line that begins with three backticks.
C39_SanitizedIsBoundedAndClean ==
    prompt.output # NotSanitized =>
        LET out == prompt.output
        IN /\ Length(out) <= MAX_TASK_DESCRIPTION_LENGTH
           /\ \A k \in DOMAIN out : out[k].ch # NUL
           /\ \A k \in DOMAIN out : out[k].ch = LF => out[k].n < 3
           /\ \A k \in DOMAIN out :
                  (out[k].ch = BACKTICK /\ (k = 1 \/ out[k - 1].ch = LF)) => out[k].n < 3

====
